---------------------------- MODULE Spec2Model ----------------------------
(***************************************************************************)
(* A model of fixit_all_agent.py: the FixItAllAgent pipeline              *)
(* (FileReader -> DrawingAnalyzer / MaterialAnalyzer -> ComplianceChecker  *)
(* / BOQGenerator / DuplicateMaterialDetector / MissingInfoDetector ->     *)
(* report).                                                                *)
(*                                                                         *)
(* Texts are sequences of one-character strings, so that the regular       *)
(* expressions, str.lower and str.split act on characters as they do in    *)
(* Python.  Floats are exact decimals [num, exp] = num / 10^exp, kept      *)
(* normalised (no trailing zero in num unless exp = 0): for the short      *)
(* numerals of the model float() is injective and the comparisons with the *)
(* thresholds agree with the exact ones.                                   *)
(***************************************************************************)
EXTENDS Integers, Sequences, FiniteSets, TLC

VARIABLES
    pc,                \* where the modelled call stands
    filename,          \* argument of FixItAllAgent.process
    calls,             \* the stages invoked so far by the current call of process, in order
    text,              \* the extracted text (local of process, argument of the parsers)
    scale,             \* local of process
    measurements,      \* local of process / argument of check_compliance
    material_list,     \* local of process / argument of detect_duplicates
    compliance_issues, \* local `issues` of check_compliance
    boq,               \* boq.to_dict('records')
    duplicates,        \* local `duplicates` of detect_duplicates
    seen,              \* local `seen` of detect_duplicates (keys in insertion order)
    missing_info,      \* local of detect_missing_info
    outcome,           \* what process returned or raised
    thrown,            \* what the extractor raised, if it did
    firstRun,          \* observer: one earlier completed run, [text, report]
    runs               \* number of completed calls of process

vars == <<pc, filename, calls, text, scale, measurements, material_list,
          compliance_issues, boq, duplicates, seen, missing_info, outcome,
          thrown, firstRun, runs>>

-----------------------------------------------------------------------------
(* Characters and strings                                                  *)

UpperLetters == <<"A","B","C","D","E","F","G","H","I","J","K","L","M",
                  "N","O","P","Q","R","S","T","U","V","W","X","Y","Z">>
LowerLetters == <<"a","b","c","d","e","f","g","h","i","j","k","l","m",
                  "n","o","p","q","r","s","t","u","v","w","x","y","z">>
DigitChars   == <<"0","1","2","3","4","5","6","7","8","9">>

Range(s) == {s[i] : i \in DOMAIN s}

DigitSet  == Range(DigitChars)
UpperSet  == Range(UpperLetters)
LetterSet == Range(UpperLetters) \cup Range(LowerLetters)
SpaceSet  == {" ", "\t", "\n", "\r"}

IsDigit(c)  == c \in DigitSet
IsSpace(c)  == c \in SpaceSet
IsLetter(c) == c \in LetterSet
IsWordChar(c) == IsLetter(c) \/ IsDigit(c) \/ c = "_"

DigitVal(c) == (CHOOSE i \in DOMAIN DigitChars : DigitChars[i] = c) - 1

\* str.lower on one character
LowerChar(c) ==
    IF c \in UpperSet
    THEN LowerLetters[CHOOSE i \in DOMAIN UpperLetters : UpperLetters[i] = c]
    ELSE c

\* str.lower
Lower(s) == [i \in DOMAIN s |-> LowerChar(s[i])]

\* s[i..j], 1-based and inclusive; empty when j < i
Slice(s, i, j) == SubSeq(s, i, j)

\* does p occur in s starting at position i
StartsAt(s, i, p) ==
    /\ i + Len(p) - 1 <= Len(s)
    /\ \A k \in 1..Len(p) : s[i + k - 1] = p[k]

\* `p in s`
Contains(s, p) == \E i \in 1..(Len(s) + 1) : StartsAt(s, i, p)

RECURSIVE DigitRun(_, _)
\* length of the longest run of digits of s that starts at position i
DigitRun(s, i) ==
    IF i <= Len(s) /\ IsDigit(s[i]) THEN 1 + DigitRun(s, i + 1) ELSE 0

RECURSIVE SpaceRun(_, _)
SpaceRun(s, i) ==
    IF i <= Len(s) /\ IsSpace(s[i]) THEN 1 + SpaceRun(s, i + 1) ELSE 0

RECURSIVE WordRun(_, _)
WordRun(s, i) ==
    IF i <= Len(s) /\ IsWordChar(s[i]) THEN 1 + WordRun(s, i + 1) ELSE 0

RECURSIVE Pow10(_)
Pow10(k) == IF k = 0 THEN 1 ELSE 10 * Pow10(k - 1)

-----------------------------------------------------------------------------
(* Floats as exact decimals                                                *)

RECURSIVE Norm(_)
Norm(v) ==
    IF v.exp > 0 /\ v.num % 10 = 0
    THEN Norm([num |-> v.num \div 10, exp |-> v.exp - 1])
    ELSE v

RECURSIVE DigitsValue(_)
\* the integer a string of digits denotes
DigitsValue(s) ==
    IF s = <<>> THEN 0
    ELSE 10 * DigitsValue(Slice(s, 1, Len(s) - 1)) + DigitVal(s[Len(s)])

\* float(val) for val matched by \d+(?:\.\d+)?
Float(val) ==
    LET d == DigitRun(val, 1)
        frac == Slice(val, d + 2, Len(val))
    IN  Norm([num |-> DigitsValue(Slice(val, 1, d) \o frac), exp |-> Len(frac)])

\* v / 10^k
DivPow10(v, k) == Norm([num |-> v.num, exp |-> v.exp + k])

\* v < w
Less(v, w) == v.num * Pow10(w.exp) < w.num * Pow10(v.exp)

\* v * w
Times(v, w) == Norm([num |-> v.num * w.num, exp |-> v.exp + w.exp])

\* round(v, 2): to two decimals, ties to even
Round2(v) ==
    IF v.exp <= 2 THEN v
    ELSE LET unit == Pow10(v.exp - 2)
             q == v.num \div unit
             r == v.num % unit
             up == (2 * r > unit) \/ (2 * r = unit /\ q % 2 = 1)
         IN  Norm([num |-> IF up THEN q + 1 ELSE q, exp |-> 2])

-----------------------------------------------------------------------------
(* 2. DrawingAnalyzer                                                      *)

MM == <<"m", "m">>
CM == <<"c", "m">>
M  == <<"m">>

UnitAlternatives_mFirst == <<M, MM, CM>>

\* the alternation (mm|cm|m), in the order the pattern tries it
UnitAlternatives == <<MM, CM, M>>

NoMatch == [ok |-> FALSE, val |-> <<>>, unit |-> <<>>, end |-> 0]

\* (mm|cm|m) at position q: the first alternative that matches
UnitAt(s, q) ==
    LET hits == {k \in DOMAIN UnitAlternatives : StartsAt(s, q, UnitAlternatives[k])}
    IN  IF hits = {} THEN <<>>
        ELSE UnitAlternatives[CHOOSE k \in hits : \A h \in hits : k <= h]

RECURSIVE TrySpaces(_, _, _, _)
\* \s*(mm|cm|m) from q, the number having started at i: greedy, w spaces first
TrySpaces(s, i, q, w) ==
    LET u == UnitAt(s, q + w)
    IN  IF u # <<>>
        THEN [ok |-> TRUE, val |-> Slice(s, i, q - 1), unit |-> u,
              end |-> q + w + Len(u) - 1]
        ELSE IF w = 0 THEN NoMatch ELSE TrySpaces(s, i, q, w - 1)

AfterNumber(s, i, q) == TrySpaces(s, i, q, SpaceRun(s, q))

RECURSIVE TryFraction(_, _, _, _)
\* (?:\.\d+)? with the dot at p: f fractional digits first, then fewer
TryFraction(s, i, p, f) ==
    IF f = 0 THEN NoMatch
    ELSE LET r == AfterNumber(s, i, p + 1 + f)
         IN  IF r.ok THEN r ELSE TryFraction(s, i, p, f - 1)

RECURSIVE TryDigits(_, _, _)
\* \d+ from i: d digits first, then fewer
TryDigits(s, i, d) ==
    IF d = 0 THEN NoMatch
    ELSE LET p == i + d
             withFrac == IF p <= Len(s) /\ s[p] = "."
                         THEN TryFraction(s, i, p, DigitRun(s, p + 1))
                         ELSE NoMatch
             without == AfterNumber(s, i, p)
         IN  IF withFrac.ok THEN withFrac
             ELSE IF without.ok THEN without
             ELSE TryDigits(s, i, d - 1)

\* the match of (\d+(?:\.\d+)?)\s*(mm|cm|m) that starts at i, if any
MeasureMatchAt(s, i) == TryDigits(s, i, DigitRun(s, i))

RECURSIVE FindMeasures(_, _)
\* re.findall: leftmost matches, not overlapping, scanning from position i
FindMeasures(s, i) ==
    IF i > Len(s) THEN <<>>
    ELSE LET r == MeasureMatchAt(s, i)
         IN  IF r.ok
             THEN <<[value |-> Float(r.val), unit |-> r.unit]>>
                  \o FindMeasures(s, r.end + 1)
             ELSE FindMeasures(s, i + 1)

extract_measurements(t) == FindMeasures(Lower(t), 1)

\* Python's None, and a value that is present
None == <<>>
Some(x) == <<x>>

W_scale == <<"s","c","a","l","e">>

\* the position of the digits of the match of
\* Scale\s*[:\-]?\s*1[:]\s*(\d+) (IGNORECASE) that starts at i; 0 for no match
ScaleDigitsAt(s, i) ==
    IF ~StartsAt(Lower(s), i, W_scale) THEN 0
    ELSE LET P1 == {i + 5 + w : w \in 0..SpaceRun(s, i + 5)}
             P2 == P1 \cup {p + 1 : p \in {q \in P1 : q <= Len(s) /\ s[q] \in {":", "-"}}}
             P3 == UNION {{p + w : w \in 0..SpaceRun(s, p)} : p \in P2}
             P4 == {p + 2 : p \in {q \in P3 : StartsAt(s, q, <<"1", ":">>)}}
             P5 == UNION {{p + w : w \in 0..SpaceRun(s, p)} : p \in P4}
             D  == {p \in P5 : DigitRun(s, p) >= 1}
         IN  IF D = {} THEN 0 ELSE CHOOSE p \in D : TRUE

extract_scale_zero(t) ==
    LET starts == {i \in 1..Len(t) : ScaleDigitsAt(t, i) # 0}
    IN  IF starts = {} THEN Some(0)
        ELSE LET i == CHOOSE k \in starts : \A h \in starts : k <= h
                 p == ScaleDigitsAt(t, i)
             IN  Some(DigitsValue(Slice(t, p, p + DigitRun(t, p) - 1)))

\* re.search: the leftmost match; int(match.group(1)) if match else None
extract_scale(t) ==
    LET starts == {i \in 1..Len(t) : ScaleDigitsAt(t, i) # 0}
    IN  IF starts = {} THEN None
        ELSE LET i == CHOOSE k \in starts : \A h \in starts : k <= h
                 p == ScaleDigitsAt(t, i)
             IN  Some(DigitsValue(Slice(t, p, p + DigitRun(t, p) - 1)))

-----------------------------------------------------------------------------
(* 3. ComplianceChecker                                                    *)

MIN_CEILING_HEIGHT == [num |-> 23, exp |-> 1]    \* 2.3 meters
MIN_CORRIDOR_WIDTH == [num |-> 9, exp |-> 1]     \* 0.9 meters
MIN_DOOR_WIDTH     == [num |-> 762, exp |-> 3]   \* 0.762 meters

ToMeters_mmAsCm(value, unit) ==
    IF unit = MM THEN DivPow10(value, 2)
    ELSE IF unit = CM THEN DivPow10(value, 2)
    ELSE value

\* value / 1000 for mm, value / 100 for cm, value otherwise
ToMeters(value, unit) ==
    IF unit = MM THEN DivPow10(value, 3)
    ELSE IF unit = CM THEN DivPow10(value, 2)
    ELSE value

\* f"<message>: {value} m"
Issue(message, value) == [message |-> message, value |-> value]

\* the body of the loop of check_compliance for one measurement
IssuesOf(m) ==
    LET value == ToMeters(m.value, m.unit)
    IN  (IF Less(value, MIN_CEILING_HEIGHT)
         THEN <<Issue("Ceiling height too low", value)>> ELSE <<>>)
        \o (IF Less(value, MIN_CORRIDOR_WIDTH)
            THEN <<Issue("Corridor width too small", value)>> ELSE <<>>)
        \o (IF Less(value, MIN_DOOR_WIDTH)
            THEN <<Issue("Door width too small", value)>> ELSE <<>>)

RECURSIVE check_compliance(_)
check_compliance(ms) ==
    IF ms = <<>> THEN <<>>
    ELSE IssuesOf(Head(ms)) \o check_compliance(Tail(ms))

-----------------------------------------------------------------------------
(* 4. MaterialAnalyzer                                                     *)

W_timber   == <<"t","i","m","b","e","r">>
W_flooring == <<"f","l","o","o","r","i","n","g">>
W_tile     == <<"t","i","l","e">>
W_concrete == <<"c","o","n","c","r","e","t","e">>
W_steel    == <<"s","t","e","e","l">>

\* (Timber|Flooring|Tile|Concrete|Steel), compared under IGNORECASE
MaterialVocabulary == <<W_timber, W_flooring, W_tile, W_concrete, W_steel>>

\* length of the vocabulary word that starts at i of the lower-cased text; 0
\* for none
VocabularyAt(low, i) ==
    LET hits == {k \in DOMAIN MaterialVocabulary : StartsAt(low, i, MaterialVocabulary[k])}
    IN  IF hits = {} THEN 0
        ELSE Len(MaterialVocabulary[CHOOSE k \in hits : \A h \in hits : k <= h])

\* length of the match of (\d+mm|\d+cm) at q under IGNORECASE; 0 for none
ThicknessAt(low, q) ==
    LET d == DigitRun(low, q)
    IN  IF d >= 1 /\ (StartsAt(low, q + d, MM) \/ StartsAt(low, q + d, CM))
        THEN d + 2 ELSE 0

\* the match of (Timber|...)\s*(\w+)?\s*(\d+mm|\d+cm)? that starts at i: every
\* part after the vocabulary word is optional and greedy, so the first path
\* the matcher tries succeeds.  low is s lower-cased (IGNORECASE); the groups
\* are cut from s itself.
MaterialMatchAt(s, low, i) ==
    LET n  == VocabularyAt(low, i)
        a  == i + n
        b  == a + SpaceRun(s, a)
        c  == b + WordRun(s, b)
        d  == c + SpaceRun(s, c)
        th == ThicknessAt(low, d)
    IN  [ok |-> n > 0,
         entry |-> [material |-> Slice(s, i, a - 1),
                    type |-> Slice(s, b, c - 1),
                    thickness |-> Slice(s, d, d + th - 1)],
         end |-> d + th - 1]

RECURSIVE FindMaterials(_, _, _)
\* re.findall: leftmost matches, not overlapping, scanning from position i
FindMaterials(s, low, i) ==
    IF i > Len(s) THEN <<>>
    ELSE LET r == MaterialMatchAt(s, low, i)
         IN  IF r.ok THEN <<r.entry>> \o FindMaterials(s, low, r.end + 1)
             ELSE FindMaterials(s, low, i + 1)

extract_materials(t) == FindMaterials(t, Lower(t), 1)

-----------------------------------------------------------------------------
(* 5. BOQGenerator                                                         *)

BOQLine(m) ==
    LET val == ToMeters(m.value, m.unit)
    IN  [material |-> "Generic Material", quantity_m2 |-> Round2(Times(val, val))]

\* pd.DataFrame(boq): the columns are the keys of the records, in order
DataFrame(records) ==
    [columns |-> IF records = <<>> THEN <<>> ELSE <<"material", "quantity_m2">>,
     rows |-> [i \in DOMAIN records |->
                  <<records[i].material, records[i].quantity_m2>>]]

generate_boq(ms, materials) == DataFrame([i \in DOMAIN ms |-> BOQLine(ms[i])])

\* DataFrame.to_dict('records'): one mapping column -> cell per row
to_dict_records(df) ==
    [i \in DOMAIN df.rows |->
        [c \in Range(df.columns) |->
            df.rows[i][CHOOSE k \in DOMAIN df.columns : df.columns[k] = c]]]

-----------------------------------------------------------------------------
(* 6. DuplicateMaterialDetector                                            *)

\* difflib.SequenceMatcher.find_longest_match: the longest common block of a
\* and b, the earliest in a and then in b among the longest; <<0, 0, 0>> for none
LongestMatch(a, b) ==
    LET blocks == {t \in (1..Len(a)) \X (1..Len(b)) \X (1..Len(a)) :
                      /\ t[1] + t[3] - 1 <= Len(a)
                      /\ StartsAt(b, t[2], Slice(a, t[1], t[1] + t[3] - 1))}
    IN  IF blocks = {} THEN <<0, 0, 0>>
        ELSE CHOOSE t \in blocks : \A u \in blocks :
                \/ t[3] > u[3]
                \/ t[3] = u[3] /\ t[1] < u[1]
                \/ t[3] = u[3] /\ t[1] = u[1] /\ t[2] <= u[2]

RECURSIVE MatchingChars(_, _)
\* the total size of SequenceMatcher's matching blocks: the longest common
\* block, then the same to its left and to its right
MatchingChars(a, b) ==
    LET t == LongestMatch(a, b)
    IN  IF t[3] = 0 THEN 0
        ELSE t[3]
             + MatchingChars(Slice(a, 1, t[1] - 1), Slice(b, 1, t[2] - 1))
             + MatchingChars(Slice(a, t[1] + t[3], Len(a)), Slice(b, t[2] + t[3], Len(b)))

\* int(round(n / d)) for n >= 0, d > 0: ties to even
RoundDiv(n, d) ==
    LET q == n \div d
        r == n % d
    IN  IF 2 * r > d \/ (2 * r = d /\ q % 2 = 1) THEN q + 1 ELSE q

\* fuzzywuzzy's fuzz.ratio: int(round(100 * SequenceMatcher(None, s1, s2).ratio())),
\* 100 for equal strings, 0 when one of them is empty
fuzz_ratio(s1, s2) ==
    IF s1 = s2 THEN 100
    ELSE IF s1 = <<>> \/ s2 = <<>> THEN 0
    ELSE RoundDiv(200 * MatchingChars(s1, s2), Len(s1) + Len(s2))

\* seen = {}: a fresh dictionary at every call, whatever an earlier call left
NewSeen_kept(left) == left

NewSeen(left) == <<>>

SetSeen_list(keys, name) == Append(keys, name)

\* seen[name] = True: the keys of the dictionary, in insertion order
SetSeen(keys, name) == IF name \in Range(keys) THEN keys ELSE Append(keys, name)

RECURSIVE PairsWith(_, _)
\* the inner loop: name against every key of seen, in order
PairsWith(name, keys) ==
    IF keys = <<>> THEN <<>>
    ELSE (IF fuzz_ratio(name, Head(keys)) > 90 THEN <<<<name, Head(keys)>>>> ELSE <<>>)
         \o PairsWith(name, Tail(keys))

RECURSIVE DuplicatesLoop(_, _, _)
\* the outer loop from the materials still to visit; returns the locals
DuplicatesLoop(ms, keys, dups) ==
    IF ms = <<>> THEN [duplicates |-> dups, seen |-> keys]
    ELSE LET name == Head(ms).material
         IN  DuplicatesLoop(Tail(ms), SetSeen(keys, name),
                            dups \o PairsWith(name, keys))

\* detect_duplicates; `left` is what an earlier call left in the variable seen
detect_duplicates(ms, left) == DuplicatesLoop(ms, NewSeen(left), <<>>)

-----------------------------------------------------------------------------
(* 7. MissingInfoDetector                                                  *)

W_insulation  == <<"i","n","s","u","l","a","t","i","o","n">>
W_wall_finish == <<"w","a","l","l"," ","f","i","n","i","s","h">>

detect_missing_info(t) ==
    (IF ~Contains(Lower(t), W_flooring)
     THEN <<"Missing Flooring Information">> ELSE <<>>)
    \o (IF ~Contains(Lower(t), W_insulation)
        THEN <<"Missing Insulation Information">> ELSE <<>>)
    \o (IF ~Contains(Lower(t), W_wall_finish)
        THEN <<"Missing Wall Finish Information">> ELSE <<>>)

-----------------------------------------------------------------------------
(* 8. FixItAllAgent                                                        *)

RECURSIVE Split(_, _)
\* str.split(sep) for a one-character separator
Split(s, sep) ==
    LET dots == {i \in DOMAIN s : s[i] = sep}
    IN  IF dots = {} THEN <<s>>
        ELSE LET i == CHOOSE k \in dots : \A h \in dots : k <= h
             IN  <<Slice(s, 1, i - 1)>> \o Split(Slice(s, i + 1, Len(s)), sep)

Extension_first(f) == Split(f, ".")[1]

\* ext = filename.split('.')[-1]
Extension(f) == LET parts == Split(f, ".") IN parts[Len(parts)]

E_pdf  == <<"p","d","f">>
E_png  == <<"p","n","g">>
E_jpg  == <<"j","p","g">>
E_jpeg == <<"j","p","e","g">>
E_dwg  == <<"d","w","g">>

ExtractorFor_caseSensitive(ext) ==
    IF ext = E_pdf THEN "read_pdf"
    ELSE IF ext \in {E_png, E_jpg, E_jpeg} THEN "read_image"
    ELSE IF ext = E_dwg THEN "read_dwg"
    ELSE ""

\* the if/elif chain on ext.lower(); "" stands for the else branch
ExtractorFor(ext) ==
    IF Lower(ext) = E_pdf THEN "read_pdf"
    ELSE IF Lower(ext) \in {E_png, E_jpg, E_jpeg} THEN "read_image"
    ELSE IF Lower(ext) = E_dwg THEN "read_dwg"
    ELSE ""

NoOutcome == [kind |-> "none", error |-> "", report |-> None]
Raised(e) == [kind |-> "raise", error |-> e, report |-> None]
Returned(r) == [kind |-> "return", error |-> "", report |-> Some(r)]

\* raise ValueError("Unsupported file type")
UnsupportedFileType == "ValueError: Unsupported file type"

\* what the libraries behind FileReader raise
ExtractionErrors == {"FileNotFoundError", "DXFStructureError", "TesseractNotFoundError"}

EmptyReport ==
    [scale |-> None, measurements |-> <<>>, compliance_issues |-> <<>>,
     materials |-> <<>>, boq |-> <<>>, duplicate_materials |-> <<>>,
     missing_info |-> <<>>]

OnExtractorError_swallowed(e) == Returned(EmptyReport)

\* process has no try/except: what the extractor raises leaves process as it is
OnExtractorError(e) == Raised(e)

\* the stages process runs after the extractor, in the order of the calls
LaterStages ==
    <<"extract_measurements", "extract_scale", "extract_materials",
      "check_compliance", "generate_boq", "detect_duplicates",
      "detect_missing_info">>

F_plan_pdf == <<"p","l","a","n",".","p","d","f">>
F_PLAN_PDF == <<"P","L","A","N",".","P","D","F">>
F_site_png == <<"s","i","t","e",".","p","n","g">>
F_scan_JPG == <<"s","c","a","n",".","J","P","G">>
F_photo_jpeg == <<"p","h","o","t","o",".","j","p","e","g">>
F_model_dwg == <<"m","o","d","e","l",".","d","w","g">>
F_drawing_txt == <<"d","r","a","w","i","n","g",".","t","x","t">>
F_pdf_txt == <<"p","d","f",".","t","x","t">>
F_plan_v2_Dwg == <<"p","l","a","n",".","v","2",".","D","w","g">>
F_plan_pdfx == <<"p","l","a","n",".","p","d","f","x">>
F_README == <<"R","E","A","D","M","E">>
F_pdf == <<"p","d","f">>

Filenames ==
    {F_plan_pdf,
     F_PLAN_PDF,
     F_site_png,
     F_scan_JPG,
     F_photo_jpeg,
     F_model_dwg,
     F_drawing_txt,
     F_pdf_txt,
     F_plan_v2_Dwg,
     F_plan_pdfx,
     F_README,
     F_pdf}

T_empty == <<>>
T_timber_twice == <<"T","i","m","b","e","r",",","T","i","m","b","e","r">>
T_scale_2500mm == <<"S","c","a","l","e"," ","1",":","5","0"," ","2","5","0","0"," ","m","m">>
T_500mm_steel == <<"5","0","0","m","m"," ","S","t","e","e","l">>
T_complete == <<"f","l","o","o","r","i","n","g"," ","i","n","s","u","l","a","t","i","o","n"," ","w","a","l","l"," ","f","i","n","i","s","h">>
T_timber_cases == <<"T","i","m","b","e","r"," ","o","a","k"," ","1","2","m","m",","," ","t","i","m","b","e","r">>
T_scale_only == <<"S","c","a","l","e"," ","1",":","1","0","0">>
T_3m_tile == <<"3"," ","m"," ","t","i","l","e">>
T_flooring_installed == <<"F","l","o","o","r","i","n","g"," ","i","n","s","t","a","l","l","e","d">>
T_tiles == <<"T","i","l","e",";","T","i","l","e",";","T","i","l","e">>

\* what an extractor may return
ProcessTexts ==
    {T_empty,
     T_timber_twice,
     T_scale_2500mm,
     T_500mm_steel,
     T_complete,
     T_timber_cases,
     T_scale_only,
     T_3m_tile,
     T_flooring_installed,
     T_tiles}

MaxRuns == 3

Init ==
    /\ pc = "idle"
    /\ filename = <<>>
    /\ calls = <<>>
    /\ text = <<>>
    /\ scale = None
    /\ measurements = <<>>
    /\ material_list = <<>>
    /\ compliance_issues = <<>>
    /\ boq = <<>>
    /\ duplicates = <<>>
    /\ seen = <<>>
    /\ missing_info = <<>>
    /\ outcome = NoOutcome
    /\ thrown = None
    /\ firstRun = None
    /\ runs = 0

\* process(filename) up to the call of the extractor: lines 139-148
Call(f) ==
    /\ pc = "idle"
    /\ runs < MaxRuns
    /\ filename' = f
    /\ thrown' = None
    /\ IF ExtractorFor(Extension(f)) = ""
       THEN /\ calls' = <<>>
            /\ outcome' = Raised(UnsupportedFileType)
            /\ pc' = "raised"
       ELSE /\ calls' = <<ExtractorFor(Extension(f))>>
            /\ outcome' = NoOutcome
            /\ pc' = "extracting"
    /\ UNCHANGED <<text, scale, measurements, material_list, compliance_issues,
                   boq, duplicates, seen, missing_info, firstRun, runs>>

\* the extractor returns t and process runs to its return: lines 150-168
ExtractorReturns(t) ==
    /\ pc = "extracting"
    /\ text' = t
    /\ measurements' = extract_measurements(t)
    /\ scale' = extract_scale(t)
    /\ material_list' = extract_materials(t)
    /\ compliance_issues' = check_compliance(measurements')
    /\ boq' = to_dict_records(generate_boq(measurements', material_list'))
    /\ LET d == detect_duplicates(material_list', seen)
       IN  /\ duplicates' = d.duplicates
           /\ seen' = d.seen
    /\ missing_info' = detect_missing_info(t)
    /\ calls' = calls \o LaterStages
    /\ outcome' = Returned([scale |-> scale',
                            measurements |-> measurements',
                            compliance_issues |-> compliance_issues',
                            materials |-> material_list',
                            boq |-> boq',
                            duplicate_materials |-> duplicates',
                            missing_info |-> missing_info'])
    /\ pc' = "returned"
    /\ UNCHANGED <<filename, thrown, firstRun, runs>>

\* the extractor raises e: lines 141-146, nothing catches it
ExtractorRaises(e) ==
    /\ pc = "extracting"
    /\ thrown' = Some(e)
    /\ outcome' = OnExtractorError(e)
    /\ pc' = IF outcome'.kind = "raise" THEN "raised" ELSE "returned"
    /\ UNCHANGED <<filename, calls, text, scale, measurements, material_list,
                   compliance_issues, boq, duplicates, seen, missing_info,
                   firstRun, runs>>

\* process has returned or raised: its frame (filename, the result handed to
\* the caller) is gone and the agent is ready for the next call.  The observer
\* firstRun may keep this run, if it returned and none is kept yet.
Done ==
    /\ pc \in {"returned", "raised"}
    /\ pc' = "idle"
    /\ runs' = runs + 1
    /\ filename' = <<>>
    /\ calls' = <<>>
    /\ outcome' = NoOutcome
    /\ thrown' = None
    /\ \/ firstRun' = firstRun
       \/ /\ pc = "returned"
          /\ firstRun = None
          /\ firstRun' = Some([text |-> text, report |-> outcome.report[1]])
    /\ UNCHANGED <<text, scale, measurements, material_list, compliance_issues,
                   boq, duplicates, seen, missing_info>>

Next ==
    \/ \E f \in Filenames : Call(f)
    \/ \E t \in ProcessTexts : ExtractorReturns(t)
    \/ \E e \in ExtractionErrors : ExtractorRaises(e)
    \/ Done

Spec == Init /\ [][Next]_vars

-----------------------------------------------------------------------------
(* The components on their own: each specification draws the argument of   *)
(* one method and calls it once.                                           *)

RECURSIVE TextsOf(_, _)
\* the texts made of at most k pieces of P
TextsOf(P, k) ==
    IF k = 0 THEN {<<>>}
    ELSE LET shorter == TextsOf(P, k - 1)
         IN  shorter \cup {s \o p : s \in shorter, p \in P}

RECURSIVE ListsOf(_, _)
\* the lists of at most k elements of S
ListsOf(S, k) ==
    IF k = 0 THEN {<<>>}
    ELSE LET shorter == ListsOf(S, k - 1)
         IN  shorter \cup {Append(l, x) : l \in shorter, x \in S}

\* everything but pc and the arguments of the parsers and checkers
Untouched ==
    /\ filename = <<>>
    /\ calls = <<>>
    /\ scale = None
    /\ compliance_issues = <<>>
    /\ boq = <<>>
    /\ duplicates = <<>>
    /\ seen = <<>>
    /\ missing_info = <<>>
    /\ outcome = NoOutcome
    /\ thrown = None
    /\ firstRun = None
    /\ runs = 0

(* DrawingAnalyzer.extract_measurements *)

MaxMeasurePieces == 4

MeasurePieces ==
    {<<"5">>, <<"2",".","5","0">>, <<".">>, <<" ">>, <<"m">>, <<"m","m">>, <<"c","m">>,
     <<"k","m">>, <<"m","i","l","e","s">>, <<"M","M">>}

InitMeasure ==
    /\ pc = "ready"
    /\ text \in TextsOf(MeasurePieces, MaxMeasurePieces)
    /\ measurements = <<>>
    /\ material_list = <<>>
    /\ Untouched

MeasureCall ==
    /\ pc = "ready"
    /\ measurements' = extract_measurements(text)
    /\ pc' = "done"
    /\ UNCHANGED <<filename, calls, text, scale, material_list, compliance_issues,
                   boq, duplicates, seen, missing_info, outcome, thrown,
                   firstRun, runs>>

NextMeasure == MeasureCall

SpecMeasure == InitMeasure /\ [][NextMeasure]_vars

(* MaterialAnalyzer.extract_materials *)

MaxMaterialPieces == 4

MaterialPieces ==
    {<<"T","i","m","b","e","r">>, <<"t","i","l","e">>, <<"S","T","E","E","L">>,
     <<" ">>, <<",">>, <<"o","a","k">>, <<"1","2","m","m">>}

InitMaterial ==
    /\ pc = "ready"
    /\ text \in TextsOf(MaterialPieces, MaxMaterialPieces)
    /\ measurements = <<>>
    /\ material_list = <<>>
    /\ Untouched

MaterialCall ==
    /\ pc = "ready"
    /\ material_list' = extract_materials(text)
    /\ pc' = "done"
    /\ UNCHANGED <<filename, calls, text, scale, measurements, compliance_issues,
                   boq, duplicates, seen, missing_info, outcome, thrown,
                   firstRun, runs>>

NextMaterial == MaterialCall

SpecMaterial == InitMaterial /\ [][NextMaterial]_vars

(* ComplianceChecker.check_compliance *)

MaxMeasurements == 2

Dec(n, e) == Norm([num |-> n, exp |-> e])

\* measurements on both sides of, and on, each threshold, in each unit
MeasurementSamples ==
    {[value |-> Dec(2500, 0), unit |-> MM], [value |-> Dec(2300, 0), unit |-> MM],
     [value |-> Dec(22999, 1), unit |-> MM], [value |-> Dec(900, 0), unit |-> MM],
     [value |-> Dec(899, 0), unit |-> MM], [value |-> Dec(762, 0), unit |-> MM],
     [value |-> Dec(761, 0), unit |-> MM], [value |-> Dec(500, 0), unit |-> MM],
     [value |-> Dec(230, 0), unit |-> CM], [value |-> Dec(229, 0), unit |-> CM],
     [value |-> Dec(90, 0), unit |-> CM], [value |-> Dec(762, 1), unit |-> CM],
     [value |-> Dec(761, 1), unit |-> CM], [value |-> Dec(23, 1), unit |-> M],
     [value |-> Dec(229, 2), unit |-> M], [value |-> Dec(9, 1), unit |-> M],
     [value |-> Dec(762, 3), unit |-> M], [value |-> Dec(3, 0), unit |-> M],
     [value |-> Dec(0, 0), unit |-> M]}

InitCompliance ==
    /\ pc = "ready"
    /\ text = <<>>
    /\ measurements \in ListsOf(MeasurementSamples, MaxMeasurements)
    /\ material_list = <<>>
    /\ Untouched

ComplianceCall ==
    /\ pc = "ready"
    /\ compliance_issues' = check_compliance(measurements)
    /\ pc' = "done"
    /\ UNCHANGED <<filename, calls, text, scale, measurements, material_list,
                   boq, duplicates, seen, missing_info, outcome, thrown,
                   firstRun, runs>>

NextCompliance == ComplianceCall

SpecCompliance == InitCompliance /\ [][NextCompliance]_vars

(* DuplicateMaterialDetector.detect_duplicates *)

MaxMaterials == 3

N_Timber == <<"T","i","m","b","e","r">>
N_Concrete == <<"C","o","n","c","r","e","t","e">>
N_Flooring == <<"F","l","o","o","r","i","n","g">>
N_Floorings == <<"F","l","o","o","r","i","n","g","s">>
N_Steel_beam == <<"S","t","e","e","l"," ","b","e","a","m">>
N_Steel_bean == <<"S","t","e","e","l"," ","b","e","a","n">>

\* names that repeat, that score above 90 without being equal (Flooring and
\* Floorings: 94), that score 90 exactly (Steel beam and Steel bean) and below
MaterialNames ==
    {N_Timber, N_Concrete, N_Flooring, N_Floorings, N_Steel_beam, N_Steel_bean}

MaterialEntries == {[material |-> n, type |-> <<>>, thickness |-> <<>>] : n \in MaterialNames}

InitDuplicates ==
    /\ pc = "ready"
    /\ text = <<>>
    /\ measurements = <<>>
    /\ material_list \in ListsOf(MaterialEntries, MaxMaterials)
    /\ Untouched

DuplicatesCall ==
    /\ pc = "ready"
    /\ LET d == detect_duplicates(material_list, seen)
       IN  /\ duplicates' = d.duplicates
           /\ seen' = d.seen
    /\ pc' = "done"
    /\ UNCHANGED <<filename, calls, text, scale, measurements, material_list,
                   compliance_issues, boq, missing_info, outcome, thrown,
                   firstRun, runs>>

NextDuplicates == DuplicatesCall

SpecDuplicates == InitDuplicates /\ [][NextDuplicates]_vars

-----------------------------------------------------------------------------
(* Properties                                                              *)

\* the extension of a filename: what follows its last ".", the whole name
\* when it has none
AfterLastDot(f) ==
    LET k == CHOOSE j \in 0..Len(f) :
                 /\ j = 0 \/ f[j] = "."
                 /\ \A h \in (j + 1)..Len(f) : f[h] # "."
    IN  [i \in 1..(Len(f) - k) |-> LowerChar(f[k + i])]

SupportedExtensions == {E_pdf, E_png, E_jpg, E_jpeg, E_dwg}

Extractors == {"read_pdf", "read_image", "read_dwg"}

IsExtractor(c) == c \in Extractors

ExtractorCalls == SelectSeq(calls, IsExtractor)

\* C1: for a filename whose extension is none of pdf, png, jpg, jpeg, dwg,
\* process raises the unsupported-file-type error, no extractor has been
\* invoked and no report is returned.
C1_UnsupportedRaisesBeforeExtraction ==
    (pc # "idle" /\ AfterLastDot(filename) \notin SupportedExtensions)
        => /\ pc = "raised"
           /\ outcome = Raised(UnsupportedFileType)
           /\ outcome.report = None
           /\ calls = <<>>

C1_Witness ==
    /\ pc = "raised"
    /\ filename = F_drawing_txt
    /\ outcome.error = UnsupportedFileType
    /\ calls = <<>>

\* C2: the lower-cased extension selects the extractor: pdf only read_pdf,
\* png/jpg/jpeg only read_image, dwg only read_dwg, in any letter case; any
\* other filename fails with the unsupported-file-type error and runs no
\* extractor.
C2_ExtensionSelectsExtractor ==
    pc # "idle" =>
        LET e == AfterLastDot(filename)
        IN  /\ e = E_pdf => ExtractorCalls = <<"read_pdf">>
            /\ e \in {E_png, E_jpg, E_jpeg} => ExtractorCalls = <<"read_image">>
            /\ e = E_dwg => ExtractorCalls = <<"read_dwg">>
            /\ e \notin SupportedExtensions
                   => ExtractorCalls = <<>> /\ outcome = Raised(UnsupportedFileType)

C2_Witness ==
    /\ pc = "returned"
    /\ filename = F_PLAN_PDF
    /\ ExtractorCalls = <<"read_pdf">>

\* C3: when the selected extractor raises, process ends with that same error,
\* the extractor is the only stage that was called, and called once, and no
\* report is returned.
C3_ExtractorErrorIsFinal ==
    thrown # None
        => /\ pc = "raised"
           /\ outcome.kind = "raise"
           /\ outcome.error = thrown[1]
           /\ outcome.report = None
           /\ Len(calls) = 1
           /\ IsExtractor(calls[1])

C3_Witness ==
    /\ pc = "raised"
    /\ thrown = Some("DXFStructureError")
    /\ calls = <<"read_dwg">>
    /\ outcome = Raised("DXFStructureError")

\* a measurement in micrometres: 1 mm = 1000, 1 cm = 10000, 1 m = 1000000
Micrometres(m) ==
    LET per == IF m.unit = MM THEN 3 ELSE IF m.unit = CM THEN 4 ELSE 6
    IN  m.value.num * Pow10(per - m.value.exp)

\* the messages of the thresholds measurement m is strictly below
Below(m) ==
    (IF Micrometres(m) < 2300000 THEN {"Ceiling height too low"} ELSE {})
    \cup (IF Micrometres(m) < 900000 THEN {"Corridor width too small"} ELSE {})
    \cup (IF Micrometres(m) < 762000 THEN {"Door width too small"} ELSE {})

RECURSIVE IssuesBefore(_)
\* the number of issues the measurements before position i are to give
IssuesBefore(i) ==
    IF i <= 1 THEN 0
    ELSE IssuesBefore(i - 1) + Cardinality(Below(measurements[i - 1]))

\* C4: check_compliance gives, measurement after measurement in list order,
\* exactly one issue per threshold (2.3 m, 0.9 m, 0.762 m) the value in
\* meters is strictly below, carrying that value, and no other issue.
C4_OneIssuePerThresholdBelow ==
    pc = "done" =>
        /\ Len(compliance_issues) = IssuesBefore(Len(measurements) + 1)
        /\ \A i \in DOMAIN measurements :
              LET mine == (IssuesBefore(i) + 1)..IssuesBefore(i + 1)
              IN  /\ {compliance_issues[k].message : k \in mine} = Below(measurements[i])
                  /\ \A k \in mine :
                        compliance_issues[k].value.num
                            * Pow10(6 - compliance_issues[k].value.exp)
                        = Micrometres(measurements[i])

C4_Witness ==
    /\ pc = "done"
    /\ measurements = <<[value |-> Dec(500, 0), unit |-> MM],
                        [value |-> Dec(2500, 0), unit |-> MM]>>
    /\ Len(compliance_issues) = 3

\* the pairs the name at position i of material_list is to give
PairsAt(i) ==
    LET name == material_list[i].material
        prior == {material_list[j].material : j \in 1..(i - 1)}
    IN  {<<name, p>> : p \in {q \in prior : fuzz_ratio(name, q) > 90}}

RECURSIVE PairsBefore(_)
PairsBefore(i) ==
    IF i <= 1 THEN 0 ELSE PairsBefore(i - 1) + Cardinality(PairsAt(i - 1))

\* C5: detect_duplicates gives, name after name in list order, the pair
\* (name, prior) for exactly the distinct names at an earlier position that
\* score above 90 with it, each once: an exact repeat is paired, names scoring
\* 90 or less (Timber and Concrete, Steel beam and Steel bean) never are.
C5_PairsWithSimilarPriorNames ==
    pc = "done" =>
        /\ Len(duplicates) = PairsBefore(Len(material_list) + 1)
        /\ \A i \in DOMAIN material_list :
              {duplicates[k] : k \in (PairsBefore(i) + 1)..PairsBefore(i + 1)}
                  = PairsAt(i)
        /\ \A i \in DOMAIN material_list : \A j \in 1..(i - 1) :
              material_list[i].material = material_list[j].material
                  => <<material_list[i].material, material_list[i].material>>
                         \in Range(duplicates)
        /\ Range(duplicates) \cap {<<N_Timber, N_Concrete>>, <<N_Concrete, N_Timber>>,
                                   <<N_Steel_beam, N_Steel_bean>>,
                                   <<N_Steel_bean, N_Steel_beam>>} = {}

C5_Witness ==
    /\ pc = "done"
    /\ [i \in DOMAIN material_list |-> material_list[i].material]
           = <<N_Flooring, N_Floorings, N_Flooring>>
    /\ duplicates = <<<<N_Floorings, N_Flooring>>, <<N_Flooring, N_Flooring>>,
                      <<N_Flooring, N_Floorings>>>>

\* the positions of text where a vocabulary word is mentioned, in any case
Mentions == {i \in DOMAIN text : VocabularyAt(Lower(text), i) > 0}

\* C6: extract_materials yields one entry per mention of a vocabulary word,
\* in order of appearance: as many entries as mentions, the k-th entry being
\* the k-th mention.
C6_OneEntryPerMention ==
    pc = "done" =>
        /\ Len(material_list) = Cardinality(Mentions)
        /\ \A k \in DOMAIN material_list :
              \E i \in Mentions :
                 /\ Cardinality({j \in Mentions : j < i}) = k - 1
                 /\ material_list[k].material
                        = Slice(text, i, i + VocabularyAt(Lower(text), i) - 1)

\* s is <digits>, or <digits>.<digits>
IsNumeral(s) ==
    LET d == DigitRun(s, 1)
    IN  /\ d >= 1
        /\ \/ d = Len(s)
           \/ /\ d + 2 <= Len(s)
              /\ s[d + 1] = "."
              /\ DigitRun(s, d + 2) = Len(s) - d - 1

IsWord(s) == s # <<>> /\ \A i \in DOMAIN s : IsLetter(s[i])

Units == {MM, CM, M}

\* text is a number, spaces or none, and then a word that is no unit
NumberThenOtherWord ==
    \E n \in 1..Len(text) : \E w \in n..Len(text) :
        /\ IsNumeral(Slice(text, 1, n))
        /\ \A i \in (n + 1)..w : IsSpace(text[i])
        /\ IsWord(Slice(text, w + 1, Len(text)))
        /\ Lower(Slice(text, w + 1, Len(text))) \notin Units

\* C7: every measurement has unit mm, cm or m, and a number followed by any
\* other unit token or word gives no measurement.
C7_OtherUnitsIgnored ==
    pc = "done" =>
        /\ \A k \in DOMAIN measurements : measurements[k].unit \in Units
        /\ NumberThenOtherWord => measurements = <<>>

\* C8: on the text "N u", N a numeral and u one of mm, cm, m, there is exactly
\* one measurement, of value N and unit u.
C8_NumberSpaceUnit ==
    pc = "done" =>
        \A u \in Units : \A n \in 1..Len(text) :
            (/\ IsNumeral(Slice(text, 1, n))
             /\ Slice(text, n + 1, Len(text)) = <<" ">> \o u)
                => /\ Len(measurements) = 1
                   /\ measurements[1].unit = u
                   /\ LET digits == DigitRun(text, 1)
                          frac == IF digits = n THEN 0 ELSE n - digits - 1
                          v == measurements[1].value
                      IN  /\ v.exp <= frac
                          /\ v.num * Pow10(frac - v.exp)
                                 = DigitsValue(SelectSeq(Slice(text, 1, n), IsDigit))

C8_Witness ==
    /\ pc = "done"
    /\ text = <<"2", ".", "5", "0", " ", "m", "m">>
    /\ measurements = <<[value |-> [num |-> 25, exp |-> 1], unit |-> MM]>>

\* C9: a call of process that returns on the text of an earlier run returns
\* the report of that run, whatever was processed in between on the same agent.
C9_SameTextSameReport ==
    (pc = "returned" /\ firstRun # None /\ firstRun[1].text = text)
        => outcome.report = Some(firstRun[1].report)

C9_Witness ==
    /\ pc = "returned"
    /\ runs = 2
    /\ firstRun # None
    /\ firstRun[1].text = text
    /\ text = T_timber_twice
    /\ outcome.report[1].duplicate_materials = <<<<N_Timber, N_Timber>>>>

\* a number, spaces or none, and a unit somewhere in the text, in any case
HasMeasurement(t) ==
    \E i \in DOMAIN t : \E j \in (i + 1)..Len(t) :
        /\ IsDigit(t[i])
        /\ \A h \in (i + 1)..(j - 1) : IsSpace(t[h])
        /\ \E u \in Units : StartsAt(Lower(t), j, u)

\* "scale" in any case, spaces, an optional ":" or "-", spaces, "1:", spaces
\* and a digit, somewhere in the text
HasScale(t) ==
    \E i \in DOMAIN t :
        /\ StartsAt(Lower(t), i, W_scale)
        /\ LET a == i + 5 + SpaceRun(t, i + 5)
               b == IF a <= Len(t) /\ t[a] \in {":", "-"} THEN a + 1 ELSE a
               c == b + SpaceRun(t, b)
               d == c + 2 + SpaceRun(t, c + 2)
           IN  /\ StartsAt(t, c, <<"1", ":">>)
               /\ d <= Len(t)
               /\ IsDigit(t[d])

\* C10: for a text with no scale declaration and no measurement process raises
\* nothing and returns a report with scale absent and measurements,
\* compliance_issues and boq empty, and with materials, duplicate_materials
\* and missing_info computed from the text.
C10_NoMatchIsNoError ==
    /\ (pc = "raised" /\ thrown = None) => calls = <<>>
    /\ (pc = "returned" /\ ~HasScale(text) /\ ~HasMeasurement(text))
        => /\ outcome.kind = "return"
           /\ LET r == outcome.report[1]
              IN  /\ r.scale = None
                  /\ r.measurements = <<>>
                  /\ r.compliance_issues = <<>>
                  /\ r.boq = <<>>
                  /\ Len(r.materials) >= 1
                         <=> \E i \in DOMAIN text : VocabularyAt(Lower(text), i) > 0
                  /\ \A k \in DOMAIN r.duplicate_materials :
                        \E i, j \in DOMAIN r.materials :
                           /\ j < i
                           /\ r.duplicate_materials[k]
                                  = <<r.materials[i].material, r.materials[j].material>>
                  /\ ("Missing Flooring Information" \in Range(r.missing_info))
                         <=> ~Contains(Lower(text), W_flooring)
                  /\ ("Missing Insulation Information" \in Range(r.missing_info))
                         <=> ~Contains(Lower(text), W_insulation)
                  /\ ("Missing Wall Finish Information" \in Range(r.missing_info))
                         <=> ~Contains(Lower(text), W_wall_finish)

C10_Witness ==
    /\ pc = "returned"
    /\ text = T_timber_twice
    /\ ~HasScale(text)
    /\ ~HasMeasurement(text)
    /\ outcome.report[1].scale = None
    /\ outcome.report[1].boq = <<>>
    /\ Len(outcome.report[1].materials) = 2
    /\ Len(outcome.report[1].missing_info) = 3

=============================================================================
